---------------------------- MODULE Spec2Model ----------------------------
(* Arbitrage detection and stake allocation of app.py:                     *)
(* best_two_outcome_arbs (quote normalizer + pairing engine), stake_split  *)
(* and the per-event loop of the script that calls them.                   *)
(*                                                                         *)
(* Python floats are modelled as what they are, IEEE 754 binary64 values   *)
(* (53-bit significands, the infinities, nan, signed zeros, subnormals),   *)
(* and every float operation of the code rounds to nearest, ties to even,  *)
(* as the hardware does: 1.0 / 3 is 6004799503160661 * 2^-54, not 1/3.     *)
EXTENDS Integers, Naturals, Sequences, FiniteSets

VARIABLES
    events,     \* per session: the list `events` of line 207 (read only)
    cfg,        \* per session: require_diff_books, min_edge, bankroll (lines 59-61)
    pc,         \* per session: position of the script
    ev,         \* per session: index of the event the loop of line 209 is at
    rows,       \* per session: local `rows` of best_two_outcome_arbs
    arbs,       \* per session: local `arbs` of best_two_outcome_arbs
    ev_arbs,    \* per session: module-level `arbs` of lines 217-218
    all_rows,   \* per session: module-level `all_rows` of line 208
    split       \* a direct call of stake_split: arguments and outcome

vars == <<events, cfg, pc, ev, rows, arbs, ev_arbs, all_rows, split>>

---------------------------------------------------------------------------
(* Bounds of the model *)

\* most markets in one event snapshot (over all its bookmakers)
MaxMarkets == 2

---------------------------------------------------------------------------
(* Natural numbers of any size (TLC's integers have 32 bits): sequences of *)
(* limbs below Base, least significant first, without a leading zero limb  *)

LimbBits == 15
Base == 2 ^ LimbBits

Abs(x) == IF x < 0 THEN -x ELSE x
Max(a, b) == IF a > b THEN a ELSE b
Min(a, b) == IF a < b THEN a ELSE b

\* the largest and the smallest member of a non-empty set of integers
SetMax(S) == -(CHOOSE x \in {-y : y \in S} : \A z \in S : x <= -z)
SetMin(S) == CHOOSE x \in S : \A y \in S : x <= y

\* the indices of the limbs of a that are not 0
NonZeroLimbs(a) == {i \in 1..Len(a) : a[i] # 0}

\* a without its leading zero limbs
BTrim(a) ==
    IF a = <<>> \/ a[Len(a)] # 0 THEN a
    ELSE IF NonZeroLimbs(a) = {} THEN <<>>
    ELSE SubSeq(a, 1, SetMax(NonZeroLimbs(a)))

RECURSIVE BNat(_)
BNat(n) == IF n = 0 THEN <<>> ELSE <<n % Base>> \o BNat(n \div Base)

\* limb i of a, 0 above its top limb
BLimb(a, i) == IF i <= Len(a) THEN a[i] ELSE 0

\* the longest run of limbs carried one by one
RunLimbs == 8

\* BCarry limb by limb, acc being the limbs below limb i
RECURSIVE BCarryRun(_, _, _, _, _)
BCarryRun(v, i, j, c, acc) ==
    IF i > j THEN [limbs |-> acc, c |-> c]
    ELSE BCarryRun(v, i + 1, j, (v[i] + c) \div Base,
                   Append(acc, (v[i] + c) % Base))

RECURSIVE BCarry(_, _, _, _)

BCarryJoin(lo, hi) == [limbs |-> lo.limbs \o hi.limbs, c |-> hi.c]

\* BCarry of v[i] .. v[j] given that of the lower half of them
BCarryHigh(v, i, j, lo) ==
    BCarryJoin(lo, BCarry(v, (i + j) \div 2 + 1, j, lo.c))

\* c + v[i] + v[i + 1] * Base + ... + v[j] * Base^(j - i) for integers
\* v[k] of any sign: its j - i + 1 lowest limbs, and the carry above them
\* (negative for a borrow); of a long range the lower half is carried
\* first, then the upper half takes its carry
BCarry(v, i, j, c) ==
    IF j - i < RunLimbs THEN BCarryRun(v, i, j, c, <<>>)
    ELSE BCarryHigh(v, i, j, BCarry(v, i, (i + j) \div 2, c))

\* the number of limbs r.limbs and carry r.c >= 0
BWithCarry(r) == BTrim(IF r.c = 0 THEN r.limbs ELSE r.limbs \o <<r.c>>)

\* the number v[1] + v[2] * Base + ... >= 0, for the n integers v
BNorm(v, n) == BWithCarry(BCarry(v, 1, n, 0))

BAdd(a, b) ==
    LET n == Max(Len(a), Len(b))
    IN  BNorm([i \in 1..n |-> BLimb(a, i) + BLimb(b, i)], n)

\* a - b, for a >= b
BSub(a, b) == BNorm([i \in 1..Len(a) |-> a[i] - BLimb(b, i)], Len(a))

\* -1, 0 or 1 as limb k of a is below, equal to or above that of b
BCmpAt(a, b, k) == IF a[k] < b[k] THEN -1 ELSE IF a[k] > b[k] THEN 1 ELSE 0

\* -1, 0 or 1 as a is below, equal to or above b: as their top limbs that
\* differ are
BCmp(a, b) ==
    IF Len(a) < Len(b) THEN -1
    ELSE IF Len(a) > Len(b) THEN 1
    ELSE LET differ == {k \in 1..Len(a) : a[k] # b[k]}
         IN  IF differ = {} THEN 0 ELSE BCmpAt(a, b, SetMax(differ))

\* a * k for 0 <= k <= Base
BMulSmall(a, k) == BNorm([i \in 1..Len(a) |-> a[i] * k], Len(a))

BShlLimbs(a, n) == IF a = <<>> THEN a ELSE [i \in 1..n |-> 0] \o a

\* a times the number of limbs i .. j of b: the halves of the range are
\* multiplied apart and added
RECURSIVE BMulRange(_, _, _, _)
BMulRange(a, b, i, j) ==
    IF i = j THEN BMulSmall(a, b[i])
    ELSE BAdd(BMulRange(a, b, i, (i + j) \div 2),
              BShlLimbs(BMulRange(a, b, (i + j) \div 2 + 1, j),
                        (i + j) \div 2 + 1 - i))

BMul(a, b) ==
    IF a = <<>> \/ b = <<>> THEN <<>> ELSE BMulRange(a, b, 1, Len(b))

\* b^k for 0 < b <= 10
RECURSIVE BPow(_, _)
BPow(b, k) ==
    IF k <= 4 THEN BNat(b ^ k)
    ELSE BMul(BPow(b, k \div 2), BPow(b, k - k \div 2))

\* a * 2^n
BShl(a, n) == BShlLimbs(BMulSmall(a, 2 ^ (n % LimbBits)), n \div LimbBits)

\* a \div 2^n
BShr(a, n) ==
    LET k == n \div LimbBits
        p == 2 ^ (n % LimbBits)
    IN  IF k >= Len(a) THEN <<>>
        ELSE LET x == SubSeq(a, k + 1, Len(a))
             IN  BTrim([i \in 1..Len(x) |->
                         (x[i] \div p)
                         + (IF i < Len(x) THEN (x[i + 1] % p) * (Base \div p)
                                          ELSE 0)])

RECURSIVE IntBitLen(_)
IntBitLen(n) == IF n = 0 THEN 0 ELSE 1 + IntBitLen(n \div 2)

\* the number of bits of a
BBitLen(a) ==
    IF a = <<>> THEN 0 ELSE LimbBits * (Len(a) - 1) + IntBitLen(a[Len(a)])

\* bit i of a, bit 0 being the lowest
BBit(a, i) ==
    LET l == i \div LimbBits + 1
    IN  IF l > Len(a) THEN 0 ELSE (a[l] \div 2 ^ (i % LimbBits)) % 2

\* the n lowest bits of a are all 0
BLowZero(a, n) ==
    /\ \A i \in 1..Min(n \div LimbBits, Len(a)) : a[i] = 0
    /\ (n \div LimbBits < Len(a))
        => a[n \div LimbBits + 1] % 2 ^ (n % LimbBits) = 0

BOdd(a) == a # <<>> /\ a[1] % 2 = 1

RECURSIVE IntTrailingZeros(_)
IntTrailingZeros(n) == IF n % 2 = 1 THEN 0 ELSE 1 + IntTrailingZeros(n \div 2)

\* the number of 0 bits below the lowest 1 bit of a # 0
BTrailingZeros(a) ==
    LET i == SetMin(NonZeroLimbs(a))
    IN  LimbBits * (i - 1) + IntTrailingZeros(a[i])

RECURSIVE BDivSmallRange(_, _, _, _, _)

\* the limbs of a in the opposite order
BReverse(a) == [i \in 1..Len(a) |-> a[Len(a) + 1 - i]]

\* a division of upper limbs followed by that of the limbs below them: the
\* limbs q of a quotient come top limb first
BDivJoin(hi, lo) == [q |-> hi.q \o lo.q, r |-> lo.r]

\* BDivSmallRange given the division hi of the upper half of the limbs
BDivSmallLow(a, k, i, j, hi) ==
    BDivJoin(hi, BDivSmallRange(a, k, i, (i + j) \div 2, hi.r))

\* limbs j .. i of a, below a remainder r < k of the limbs above them,
\* divided by 0 < k <= Base from the top down: the limbs q of the quotient,
\* top limb first, and the remainder r
BDivSmallRange(a, k, i, j, r) ==
    IF i > j THEN [q |-> <<>>, r |-> r]
    ELSE IF i = j
         THEN [q |-> <<(r * Base + a[i]) \div k>>, r |-> (r * Base + a[i]) % k]
    ELSE BDivSmallLow(a, k, i, j,
                      BDivSmallRange(a, k, (i + j) \div 2 + 1, j, r))

\* quotient and remainder of a by 0 < k <= Base
BDivSmall(a, k) ==
    LET s == BDivSmallRange(a, k, 1, Len(a), 0)
    IN  [q |-> BTrim(BReverse(s.q)), r |-> BNat(s.r)]

\* limbs n + 1 and n of t as one number
BTop(t, n) ==
    (IF Len(t) > n THEN t[n + 1] * Base ELSE 0)
    + (IF Len(t) >= n THEN t[n] ELSE 0)

\* the step of long division that divides t < b * Base by b: the digit is
\* the largest d with p = b * d <= t, counted down from an estimate not
\* below it
RECURSIVE BDivTry(_, _, _, _)
BDivTry(t, b, d, p) ==
    IF d = 0 THEN [q |-> <<0>>, r |-> t]
    ELSE IF BCmp(p, t) > 0 THEN BDivTry(t, b, d - 1, BMulSmall(b, d - 1))
    ELSE [q |-> <<d>>, r |-> BSub(t, p)]

\* the step of long division for the remainder t with the next limb
\* brought down: the digit is estimated from the top limbs of t and of b
BDivStep(b, t) ==
    LET d == Min(Base - 1, BTop(t, Len(b)) \div b[Len(b)])
    IN  BDivTry(t, b, d, BMulSmall(b, d))

RECURSIVE BDivLimbs(_, _, _, _, _)

\* BDivLimbs given the division hi of the upper half of the limbs
BDivLow(a, b, i, j, hi) ==
    BDivJoin(hi, BDivLimbs(a, b, i, (i + j) \div 2, hi.r))

\* long division limb by limb: limbs j .. i of a are brought down, from
\* the top, below the remainder r < b of the limbs above them; the limbs q
\* of the quotient, top limb first, and the remainder r
BDivLimbs(a, b, i, j, r) ==
    IF i > j THEN [q |-> <<>>, r |-> r]
    ELSE IF i = j THEN BDivStep(b, BTrim(<<a[i]>> \o r))
    ELSE BDivLow(a, b, i, j, BDivLimbs(a, b, (i + j) \div 2 + 1, j, r))

\* the quotient and the remainder s of f * a by f * b, as those of a by b
BDivUnscale(s, f) ==
    [q |-> BTrim(BReverse(s.q)), r |-> BDivSmall(s.r, f).q]

\* quotient and remainder of a by b, given fa = f * a and fb = f * b; the
\* Len(fb) - 1 top limbs of fa, below fb, are the first remainder
BDivScaled(fa, fb, f) ==
    IF Len(fa) < Len(fb) THEN BDivUnscale([q |-> <<>>, r |-> fa], f)
    ELSE BDivUnscale(BDivLimbs(fa, fb, 1, Len(fa) - Len(fb) + 1,
                               SubSeq(fa, Len(fa) - Len(fb) + 2, Len(fa))),
                     f)

\* quotient and remainder of a by b through those of f * a by f * b
BDivBy(a, b, f) == BDivScaled(BMulSmall(a, f), BMulSmall(b, f), f)

\* quotient and remainder of a by b # 0; a divisor of several limbs is
\* first scaled (with a) to have its top limb at least Base / 2, which
\* keeps the estimated digits within 2 of the true ones
BDivMod(a, b) ==
    IF Len(b) = 1 THEN BDivSmall(a, b[1])
    ELSE BDivBy(a, b, Base \div (b[Len(b)] + 1))

---------------------------------------------------------------------------
(* Python floats: IEEE 754 binary64, rounding to nearest, ties to even.    *)
(* A finite float is neg, m, e with value (-1)^neg * m * 2^e, m odd, or    *)
(* m = 0 and e = 0; the others are the infinities and nan.                 *)

\* bits of a significand
MantBits == 53
\* the exponent of the lowest bit of the smallest subnormal
MinExp == -1074
\* every finite float is below 2^MaxExp
MaxExp == 1024

Nan == [cls |-> "nan", neg |-> FALSE, m |-> <<>>, e |-> 0]
Inf(neg) == [cls |-> "inf", neg |-> neg, m |-> <<>>, e |-> 0]
FZero(neg) == [cls |-> "fin", neg |-> neg, m |-> <<>>, e |-> 0]

\* Python's None
None == [cls |-> "none", neg |-> FALSE, m |-> <<>>, e |-> 0]

IsFinite(x) == x.cls = "fin"
IsZero(x) == x.cls = "fin" /\ x.m = <<>>

\* (-1)^neg * m * 2^e for m with tz zero bits at the low end
CanonBy(neg, m, e, tz) ==
    [cls |-> "fin", neg |-> neg, m |-> BShr(m, tz), e |-> e + tz]

\* (-1)^neg * m * 2^e with the zero bits of m moved into e
Canon(neg, m, e) ==
    IF m = <<>> THEN FZero(neg) ELSE CanonBy(neg, m, e, BTrailingZeros(m))

\* (-1)^neg * r * 2^e, r of at most MantBits bits: an infinity from
\* 2^MaxExp on
Fit(neg, r, e) ==
    IF BBitLen(r) + e > MaxExp THEN Inf(neg) ELSE Canon(neg, r, e)

\* q + f rounded to the nearest integer, ties to even: half tells that
\* f >= 1/2, rest that f is neither 0 nor 1/2
BNearest(q, half, rest) ==
    IF half /\ (rest \/ BOdd(q)) THEN BAdd(q, <<1>>) ELSE q

\* RoundD for the sh lowest bits of m to drop
RoundAt(neg, m, e, sticky, sh) ==
    IF sh <= 0 THEN Fit(neg, m, e)
    ELSE Fit(neg,
             BNearest(BShr(m, sh), BBit(m, sh - 1) = 1,
                      sticky \/ ~BLowZero(m, sh - 1)),
             e + sh)

\* the float nearest to (-1)^neg * (m + f) * 2^e, where 0 <= f < 1 and
\* f > 0 exactly if sticky (then m has more than MantBits + 1 bits)
RoundD(neg, m, e, sticky) ==
    RoundAt(neg, m, e, sticky, Max(BBitLen(m) - MantBits, MinExp - e))

\* the float nearest to (-1)^neg * (d.q + d.r / b) * 2^e
RoundQuot(neg, d, e) == RoundD(neg, d.q, e, d.r # <<>>)

\* QuotD with a shifted up by k bits, enough for the quotient to have
\* more than MantBits + 1 bits
QuotBy(neg, a, b, e, k) == RoundQuot(neg, BDivMod(BShl(a, k), b), e - k)

\* the float nearest to (-1)^neg * (a / b) * 2^e, for b # 0
QuotD(neg, a, b, e) ==
    IF a = <<>> THEN FZero(neg)
    ELSE QuotBy(neg, a, b, e, Max(0, MantBits + 3 + BBitLen(b) - BBitLen(a)))

\* the float nearest to the rational n / d, d > 0: float() of an int, of a
\* decimal literal, of the text of a number
FromRat(n, d) == QuotD(n < 0, BNat(Abs(n)), BNat(d), 0)

FNeg(x) == IF x.cls = "nan" THEN x ELSE [x EXCEPT !.neg = ~x.neg]

\* -1, 0 or 1 as the magnitude of finite x is below, equal to or above y's
MagCmp(x, y) ==
    IF x.m = <<>> \/ y.m = <<>>
    THEN (IF x.m = y.m THEN 0 ELSE IF x.m = <<>> THEN -1 ELSE 1)
    ELSE LET tx == BBitLen(x.m) + x.e
             ty == BBitLen(y.m) + y.e
             e0 == Min(x.e, y.e)
         IN  IF tx < ty THEN -1
             ELSE IF tx > ty THEN 1
             ELSE BCmp(BShl(x.m, x.e - e0), BShl(y.m, y.e - e0))

\* c, or -c for a negative pair
Signed(neg, c) == IF neg THEN -c ELSE c

\* -1, 0 or 1 as x is below, equal to or above y; neither is nan
FCmp(x, y) ==
    IF IsZero(x) /\ IsZero(y) THEN 0
    ELSE IF x.neg # y.neg THEN (IF x.neg THEN -1 ELSE 1)
    ELSE Signed(x.neg, IF x.cls = "inf" /\ y.cls = "inf" THEN 0
                       ELSE IF x.cls = "inf" THEN 1
                       ELSE IF y.cls = "inf" THEN -1
                       ELSE MagCmp(x, y))

\* x < y, x <= y, x == y of Python: false whenever a side is nan
FLt(x, y) == x.cls # "nan" /\ y.cls # "nan" /\ FCmp(x, y) < 0
FLe(x, y) == x.cls # "nan" /\ y.cls # "nan" /\ FCmp(x, y) <= 0
FEq(x, y) == x.cls # "nan" /\ y.cls # "nan" /\ FCmp(x, y) = 0

\* bits by which an operand is shifted up when the other one is too small
\* to reach its rounding position
GuardBits == 64

\* x + y for finite non-zero x and y, y below the lowest of GuardBits bits
\* appended to x: y only tells on which side of x the sum lies
FAddFar(x, y) ==
    RoundD(x.neg,
           IF x.neg = y.neg THEN BShl(x.m, GuardBits)
           ELSE BSub(BShl(x.m, GuardBits), <<1>>),
           x.e - GuardBits, TRUE)

\* a * 2^e0 of sign xn less b * 2^e0 of sign yn, c being BCmp(a, b)
ExactDiff(xn, a, yn, b, e0, c) ==
    IF c = 0 THEN FZero(FALSE)
    ELSE Canon(IF c > 0 THEN xn ELSE yn,
               IF c > 0 THEN BSub(a, b) ELSE BSub(b, a), e0)

\* a * 2^e0 of sign xn plus b * 2^e0 of sign yn
ExactAligned(xn, a, yn, b, e0) ==
    IF xn = yn THEN Canon(xn, BAdd(a, b), e0)
    ELSE ExactDiff(xn, a, yn, b, e0, BCmp(a, b))

\* the sum of x and y, both multiples of 2^e0
ExactAt(x, y, e0) ==
    ExactAligned(x.neg, BShl(x.m, x.e - e0), y.neg, BShl(y.m, y.e - e0), e0)

\* the sum of finite x and y before it is rounded (m of any size)
ExactSum(x, y) ==
    IF x.m = <<>> THEN y
    ELSE IF y.m = <<>> THEN x
    ELSE ExactAt(x, y, Min(x.e, y.e))

\* the product of finite x and y before it is rounded (m of any size)
ExactProd(x, y) == Canon(x.neg # y.neg, BMul(x.m, y.m), x.e + y.e)

\* the float nearest to the finite s, whose m may be of any size
RoundExact(s) == RoundD(s.neg, s.m, s.e, FALSE)

\* x + y
FAdd(x, y) ==
    IF x.cls = "nan" \/ y.cls = "nan" THEN Nan
    ELSE IF x.cls = "inf"
         THEN (IF y.cls = "inf" /\ x.neg # y.neg THEN Nan ELSE x)
    ELSE IF y.cls = "inf" THEN y
    ELSE IF x.m = <<>> /\ y.m = <<>> THEN FZero(x.neg /\ y.neg)
    ELSE IF x.m = <<>> THEN y
    ELSE IF y.m = <<>> THEN x
    ELSE IF x.e - (BBitLen(y.m) + y.e) >= GuardBits THEN FAddFar(x, y)
    ELSE IF y.e - (BBitLen(x.m) + x.e) >= GuardBits THEN FAddFar(y, x)
    ELSE RoundExact(ExactSum(x, y))

\* x - y
FSub(x, y) == FAdd(x, FNeg(y))

\* x * y
FMul(x, y) ==
    IF x.cls = "nan" \/ y.cls = "nan" THEN Nan
    ELSE IF x.cls = "inf" \/ y.cls = "inf"
         THEN (IF IsZero(x) \/ IsZero(y) THEN Nan ELSE Inf(x.neg # y.neg))
    ELSE RoundExact(ExactProd(x, y))

\* x / y for y # 0 (Python raises ZeroDivisionError when y == 0)
FDiv(x, y) ==
    IF x.cls = "nan" \/ y.cls = "nan" THEN Nan
    ELSE IF x.cls = "inf"
         THEN (IF y.cls = "inf" THEN Nan ELSE Inf(x.neg # y.neg))
    ELSE IF y.cls = "inf" THEN FZero(x.neg # y.neg)
    ELSE QuotD(x.neg # y.neg, x.m, y.m, x.e - y.e)

\* truthiness of an optional float: None, 0.0 and -0.0 are falsy
Truthy(x) == x # None /\ ~IsZero(x)

\* the float nearest to (-1)^neg * n / p, n being t / 2^s rounded to the
\* nearest integer, ties to even
RoundScaled(neg, t, s, p) ==
    QuotD(neg,
          BNearest(BShr(t, s), BBit(t, s - 1) = 1, ~BLowZero(t, s - 1)),
          p, 0)

\* round(x, k) for p = 10^k and a finite x that is not an integer
RoundBy(x, p) == RoundScaled(x.neg, BMul(x.m, p), -x.e, p)

\* round(x, k), 0 <= k: the float nearest to the decimal of k places
\* nearest to x (ties to the even decimal); x itself if not finite
Round(x, k) ==
    IF x.cls # "fin" \/ x.e >= 0 THEN x ELSE RoundBy(x, BPow(10, k))

\* 0.0, 1.0 and 100
Zero == FZero(FALSE)
One == [cls |-> "fin", neg |-> FALSE, m |-> <<1>>, e |-> 0]
Hundred == [cls |-> "fin", neg |-> FALSE, m |-> <<25>>, e |-> 2]

---------------------------------------------------------------------------
(* Raw input: the JSON of The Odds API as the script receives it *)

\* a price as json gives it to the script: None, a float, an int of any
\* size, a string (the code points of its characters), True or False, or a
\* list or dict.  The float is the one nearest to (-1)^neg * n / d, and neg
\* with n = 0 is -0.0; the int is (-1)^neg * big, big a number of any size
JNull ==
    [kind |-> "null", neg |-> FALSE, n |-> 0, d |-> 1, big |-> <<>>,
     text |-> <<>>]
JNum(neg, n, d) ==
    [kind |-> "number", neg |-> neg, n |-> n, d |-> d, big |-> <<>>,
     text |-> <<>>]
JInt(neg, big) ==
    [kind |-> "int", neg |-> neg, n |-> 0, d |-> 1, big |-> big,
     text |-> <<>>]
JStr(text) ==
    [kind |-> "string", neg |-> FALSE, n |-> 0, d |-> 1, big |-> <<>>,
     text |-> text]
JBool(b) ==
    [kind |-> "bool", neg |-> FALSE, n |-> IF b THEN 1 ELSE 0, d |-> 1,
     big |-> <<>>, text |-> <<>>]
JOther ==
    [kind |-> "other", neg |-> FALSE, n |-> 0, d |-> 1, big |-> <<>>,
     text |-> <<>>]

---------------------------------------------------------------------------
(* float(x) of a string, lines 108 and 110.  A string is the sequence of   *)
(* the code points of its characters.  float() turns every blank and every *)
(* decimal digit of Unicode into the ASCII one, drops the blanks around    *)
(* the text, and reads an optional sign and either inf, infinity or nan in *)
(* any case, or a decimal number: digits, with single underscores between  *)
(* digits, an optional point and fraction, an optional exponent.  The     *)
(* number is read by _Py_dg_strtod, which refuses more than MaxDigits      *)
(* digits and takes an exponent of more than 9 digits as MaxAbsExp         *)

\* the blanks float() drops: tab, line feed, vertical tab, form feed,
\* carriage return, space, and the blanks of Unicode above 127 (next line,
\* no-break space, ogham space, the spaces U+2000 to U+200A, the line and
\* the paragraph separator, narrow no-break space, medium mathematical
\* space, ideographic space).  The separators U+001C to U+001F are blanks
\* for str.strip() but not here: float("\x1c1.5") raises ValueError
Spaces ==
    (9..13) \cup {32, 133, 160, 5760} \cup (8192..8202)
        \cup {8232, 8233, 8239, 8287, 12288}

\* the code points of the digit 0 of every script with decimal digits; the
\* digits 1 to 9 of the script follow it
DecimalZeros ==
    {48, 1632, 1776, 1984, 2406, 2534, 2662, 2790, 2918, 3046, 3174,
     3302, 3430, 3558, 3664, 3792, 3872, 4160, 4240, 6112, 6160, 6470,
     6608, 6784, 6800, 6992, 7088, 7232, 7248, 42528, 43216, 43264,
     43472, 43504, 43600, 44016, 65296, 66720, 68912, 69734, 69872,
     69942, 70096, 70384, 70736, 70864, 71248, 71360, 71472, 71904,
     72016, 72784, 73040, 73120, 92768, 92864, 93008, 120782, 120792,
     120802, 120812, 120822, 123200, 123632, 125264, 130032}

Digits == UNION {z..(z + 9) : z \in DecimalZeros}

\* the value of digit c: its place after the 0 of its script
DigitValue(c) == c - (CHOOSE z \in DecimalZeros : c \in z..(z + 9))

\* the ASCII capitals in lower case: inf, nan and the exponent mark are
\* read in any case
Lower(c) == IF c \in 65..90 THEN c + 32 ELSE c

LowerText(t) == [i \in 1..Len(t) |-> Lower(t[i])]

\* t without the blanks before and after it
Strip(t) ==
    LET others == {i \in 1..Len(t) : t[i] \notin Spaces}
    IN  IF others = {} THEN <<>>
        ELSE SubSeq(t, SetMin(others), SetMax(others))

\* a leading "-"; a leading "+" or "-" is dropped
IsNegative(t) == t # <<>> /\ Head(t) = 45
Unsigned(t) == IF t # <<>> /\ Head(t) \in {43, 45} THEN Tail(t) ELSE t

\* "inf", "infinity" and "nan"
InfTexts == {<<105, 110, 102>>, <<105, 110, 102, 105, 110, 105, 116, 121>>}
NanText == <<110, 97, 110>>

\* character k of t belongs to a digit part: a digit, or an underscore
\* between two digits
InDigits(t, k) ==
    \/ t[k] \in Digits
    \/ /\ t[k] = 95 /\ 1 < k /\ k < Len(t)
       /\ t[k - 1] \in Digits /\ t[k + 1] \in Digits

\* the index after the digit part of t that starts at i; i if there is none
DigitsEnd(t, i) ==
    SetMin({k \in i..(Len(t) + 1) : k = Len(t) + 1 \/ ~InDigits(t, k)})

\* the values of the digits of t from i to before j
DigitsOf(t, i, j) ==
    LET ds == SelectSeq(SubSeq(t, i, j - 1), LAMBDA c : c \in Digits)
    IN  [k \in 1..Len(ds) |-> DigitValue(ds[k])]

\* "." at b, "e" at c, "-" after it, and where the digits of the exponent
\* start
HasDot(t, b) == b <= Len(t) /\ t[b] = 46
HasExp(t, c) == c <= Len(t) /\ t[c] = 101
ExpNeg(t, c) == c < Len(t) /\ t[c + 1] = 45
ExpStart(t, c) ==
    IF c < Len(t) /\ t[c + 1] \in {43, 45} THEN c + 2 ELSE c + 1

\* digits without the zeros before its first other digit
DropZeros(digits) ==
    LET others == {i \in 1..Len(digits) : digits[i] # 0}
    IN  IF others = {} THEN <<>>
        ELSE SubSeq(digits, SetMin(others), Len(digits))

\* the number written by the digits i .. j of digits: the halves of the
\* range are read apart
RECURSIVE BDec(_, _, _)
BDec(digits, i, j) ==
    IF i > j THEN <<>>
    ELSE IF i = j THEN BNat(digits[i])
    ELSE BAdd(BMul(BDec(digits, i, (i + j) \div 2),
                   BPow(10, j - (i + j) \div 2)),
              BDec(digits, (i + j) \div 2 + 1, j))

\* the most digits of a number, counted without the zeros in front, and
\* the most digits after its point: float() raises ValueError beyond
MaxDigits == 1000000000
\* the exponent read for a written one of more than 9 digits
MaxAbsExp == 1100000000

\* the exponent written by edigits, read as _Py_dg_strtod reads it: the
\* zeros in front do not count; up to 9 digits give their number, more give
\* MaxAbsExp
ExpValue(edigits) ==
    LET d == BDec(DropZeros(edigits), 1, Len(DropZeros(edigits)))
    IN  IF Len(DropZeros(edigits)) > 9 THEN MaxAbsExp
        ELSE BLimb(d, 1) + Base * (BLimb(d, 2) + Base * BLimb(d, 3))

NotANumber == [ok |-> FALSE, digits |-> <<>>, frac |-> 0, exp |-> 0]

\* the number t: digits are those of its integer part, which ends before
\* b, and of its fraction, which ends before c, without the zeros in front;
\* frac is the count of the digits of the fraction (the zeros in front
\* too); exp is the exponent read.  Too many digits are no number
Parsed(t, b, c, exp) ==
    LET digits == DropZeros(DigitsOf(t, 1, c))
        frac == IF HasDot(t, b) THEN Len(DigitsOf(t, b + 1, c)) ELSE 0
    IN  IF Len(digits) > MaxDigits \/ frac > MaxDigits THEN NotANumber
        ELSE [ok |-> TRUE, digits |-> digits, frac |-> frac, exp |-> exp]

\* the exponent part of t: its digits are those from s to before e
ParseExp(t, b, c, s, e) ==
    IF e > s /\ e = Len(t) + 1
    THEN Parsed(t, b, c,
                IF ExpNeg(t, c) THEN -ExpValue(DigitsOf(t, s, e))
                ELSE ExpValue(DigitsOf(t, s, e)))
    ELSE NotANumber

ParseMantissa(t, b, c) ==
    IF ~(b > 1 \/ c > b + 1) THEN NotANumber
    ELSE IF HasExp(t, c)
         THEN ParseExp(t, b, c, ExpStart(t, c), DigitsEnd(t, ExpStart(t, c)))
    ELSE IF c = Len(t) + 1 THEN Parsed(t, b, c, 0)
    ELSE NotANumber

\* the decimal number t, of lower-case letters and without its sign
ParseNumber(t) ==
    LET b == DigitsEnd(t, 1)
    IN  ParseMantissa(t, b, IF HasDot(t, b) THEN DigitsEnd(t, b + 1) ELSE b)

\* the float nearest to (-1)^neg * sig * 10^x, sig the number written by
\* digits, which start and end with a digit that is not 0: the number is
\* at least 10^(Len(digits) + x - 1) and below 10^(Len(digits) + x); every
\* float is below 10^309, and a number below 10^-324 is nearest to 0; else
\* the number is sig * 5^x * 2^x
ScaledFloat(neg, digits, x) ==
    IF x > 309 - Len(digits) THEN Inf(neg)
    ELSE IF x <= -324 - Len(digits) THEN FZero(neg)
    ELSE QuotD(neg,
               IF x >= 0 THEN BMul(BDec(digits, 1, Len(digits)), BPow(5, x))
               ELSE BDec(digits, 1, Len(digits)),
               IF x >= 0 THEN <<1>> ELSE BPow(5, -x),
               x)

\* the float nearest to the number p that ParseNumber read: the zeros at
\* the end of its digits are dropped and counted in the power of ten, the
\* digits of its fraction are counted off it
DecimalFloat(neg, p) ==
    IF p.digits = <<>> THEN FZero(neg)
    ELSE LET last == SetMax({i \in 1..Len(p.digits) : p.digits[i] # 0})
         IN  ScaledFloat(neg, SubSeq(p.digits, 1, last),
                         (p.exp - p.frac) + (Len(p.digits) - last))

\* float(t) for the text u of t without blanks, sign and capitals
TextFloat(neg, u) ==
    IF u \in InfTexts THEN Inf(neg)
    ELSE IF u = NanText THEN Nan
    ELSE DecimalFloat(neg, ParseNumber(u))

\* float(t) of a string float() accepts
StrFloat(t) == TextFloat(IsNegative(Strip(t)), LowerText(Unsigned(Strip(t))))

\* float(t) raises ValueError
StrRaises(t) ==
    LET u == LowerText(Unsigned(Strip(t)))
    IN  ~(u \in InfTexts \/ u = NanText \/ ParseNumber(u).ok)

\* the float nearest to the int (-1)^neg * big, ties to even; infinite
\* when the int is beyond every float
IntFloat(neg, big) ==
    IF big = <<>> THEN FZero(FALSE) ELSE QuotD(neg, big, <<1>>, 0)

\* the exception float(x) raises: TypeError on a list or dict, ValueError
\* on a string that is no number, OverflowError on an int beyond every
\* float
FloatError(raw) ==
    IF raw.kind = "other" THEN "TypeError"
    ELSE IF raw.kind = "string" /\ StrRaises(raw.text) THEN "ValueError"
    ELSE IF raw.kind = "int" /\ IntFloat(raw.neg, raw.big) = Inf(raw.neg)
         THEN "OverflowError"
    ELSE "none"

\* float(x) of a float, of an int, of True or False (1 and 0) or of a
\* string
Float(raw) ==
    IF raw.kind = "string" THEN StrFloat(raw.text)
    ELSE IF raw.kind = "int" THEN IntFloat(raw.neg, raw.big)
    ELSE IF raw.n = 0 THEN FZero(raw.neg)
    ELSE QuotD(raw.neg, BNat(raw.n), BNat(raw.d), 0)

\* lines 108, 110: float(price) if price is not None else None
PriceOf(raw) == IF raw.kind # "null" THEN Float(raw) ELSE None
PriceError(raw) == IF raw.kind # "null" THEN FloatError(raw) ELSE "none"

\* the raw prices a two-outcome head-to-head market is drawn with:
\* null, "abc", "Inf", "NaN", -0.0, -2, 1.5, 3 and "4.0" between a
\* vertical tab and a no-break space
RawPrices ==
    {JNull, JStr(<<97, 98, 99>>), JStr(<<73, 110, 102>>),
     JStr(<<78, 97, 78>>), JNum(TRUE, 0, 1), JNum(TRUE, 2, 1),
     JNum(FALSE, 3, 2), JNum(FALSE, 3, 1), JStr(<<11, 52, 46, 48, 160>>)}
\* most outcomes in one market
MaxOutcomes == 3

\* a market before its outcomes are labelled: its tag and its raw prices
QuoteShapes(prices) ==
    {[key |-> "h2h", prices |-> <<p, q>>] : p \in prices, q \in prices}

\* two-outcome h2h markets with a price that is True, a list, "1_0e-1",
\* "3e-10000000000" with the arabic-indic digit three, the int 4 or the
\* int 10^309
OddShapes ==
    {[key |-> "h2h", prices |-> <<p, JNum(FALSE, 3, 1)>>] :
        p \in {JBool(TRUE), JOther, JStr(<<49, 95, 48, 101, 45, 49>>),
               JStr(<<1635, 101, 45, 49, 48, 48, 48, 48, 48, 48, 48, 48,
                      48, 48>>),
               JInt(FALSE, <<4>>), JInt(FALSE, BPow(10, 309))}}

\* the markets that are not two-outcome h2h ones; they carry "abc" prices,
\* which the code never converts
OtherShapes ==
    {[key |-> "h2h", prices |-> [k \in 1..n |-> JStr(<<97, 98, 99>>)]] :
        n \in (0..MaxOutcomes) \ {2}}
    \cup {[key |-> "totals", prices |-> <<JStr(<<97, 98, 99>>), JStr(<<97, 98, 99>>)>>]}

\* the ways to cut n consecutive markets into non-empty bookmakers
RECURSIVE Compositions(_)
Compositions(n) ==
    IF n = 0 THEN {<<>>}
    ELSE UNION {{<<k>> \o c : c \in Compositions(n - k)} : k \in 1..n}

RECURSIVE SumTo(_, _)
SumTo(c, b) == IF b = 0 THEN 0 ELSE c[b] + SumTo(c, b - 1)

BookKey(b) ==
    CASE b = 1 -> "bk1" [] b = 2 -> "bk2" [] b = 3 -> "bk3"
      [] b = 4 -> "bk4" [] OTHER -> "bkN"

\* the title of bookmaker b: every other bookmaker has none ("" stands for
\* a missing or empty title)
BookTitle(b) == IF b % 2 = 1 THEN "Bet" ELSE ""

\* The bookmaker entries of one event: shapes ms cut by composition c.  The
\* label of outcome k of market m of bookmaker b is <<b, m, k>>: every
\* label of an event is different, so a returned label tells where it came
\* from.
BuildBookmakers(ms, c) ==
    [b \in 1..Len(c) |->
        [title |-> BookTitle(b),
         key |-> BookKey(b),
         markets |->
            [m \in 1..c[b] |->
                LET sh == ms[SumTo(c, b - 1) + m]
                IN  [key |-> sh.key,
                     outcomes |->
                        [k \in 1..Len(sh.prices) |->
                            [name |-> <<b, m, k>>, price |-> sh.prices[k]]]]]]]

---------------------------------------------------------------------------
(* best_two_outcome_arbs, first loop: the quote normalizer *)

\* line 97: bk.get("title") or bk.get("key")
BookmakerName(bk) == IF bk.title # "" THEN bk.title ELSE bk.key

\* lines 99-103: only markets tagged h2h with exactly two outcomes
Qualifies(m) == m.key = "h2h" /\ Len(m.outcomes) = 2

\* lines 108, 110: the exception of the first float() that raises
QuoteError(m) ==
    IF PriceError(m.outcomes[1].price) # "none"
    THEN PriceError(m.outcomes[1].price)
    ELSE PriceError(m.outcomes[2].price)

\* lines 104-111: the row appended for a qualifying market
MakeQuote(name, m) ==
    [bookmaker |-> name,
     outcome1_name |-> m.outcomes[1].name,
     outcome1_price |-> PriceOf(m.outcomes[1].price),
     outcome2_name |-> m.outcomes[2].name,
     outcome2_price |-> PriceOf(m.outcomes[2].price)]

\* lines 96-111 from market m of bookmaker b on, rows being the list so
\* far; error is the exception float() raised, which ended the call there
RECURSIVE NormalizeFrom(_, _, _, _)
NormalizeFrom(bks, b, m, acc) ==
    IF b > Len(bks) THEN [rows |-> acc, error |-> "none"]
    ELSE IF m > Len(bks[b].markets) THEN NormalizeFrom(bks, b + 1, 1, acc)
    ELSE LET mk == bks[b].markets[m]
         IN  IF ~Qualifies(mk) THEN NormalizeFrom(bks, b, m + 1, acc)
             ELSE IF QuoteError(mk) # "none"
                  THEN [rows |-> acc, error |-> QuoteError(mk)]
             ELSE NormalizeFrom(bks, b, m + 1,
                                Append(acc, MakeQuote(BookmakerName(bks[b]), mk)))

\* line 95: rows = [], a new list on every call
NewRows(previous) == <<>>

---------------------------------------------------------------------------
(* best_two_outcome_arbs, second loop: the pairing engine *)

\* line 116 comparing the indices whatever the flag
SkipSelfAlways(i, j, require_diff_books) == i = j

\* line 116
SkipSelf(i, j, require_diff_books) == i = j /\ require_diff_books

\* line 119
PriceMissing(a, b) == ~Truthy(a.outcome1_price) \/ ~Truthy(b.outcome2_price)

\* line 121
InvSum(a, b) == FAdd(FDiv(One, a.outcome1_price), FDiv(One, b.outcome2_price))

\* line 122 with <= for <
IsArbOrEven(inv_sum) == FLe(inv_sum, One)

\* line 122
IsArb(inv_sum) == FLt(inv_sum, One)

\* lines 123-132
MakeArb(a, b, inv_sum) ==
    [bk_outcome1 |-> a.bookmaker,
     bk_outcome2 |-> b.bookmaker,
     outcome1 |-> a.outcome1_name,
     odd1 |-> a.outcome1_price,
     outcome2 |-> b.outcome2_name,
     odd2 |-> b.outcome2_price,
     edge |-> FSub(One, inv_sum)]

RECURSIVE PairFrom(_, _, _, _, _)

\* lines 122-132 for the pair (i, j), whose inverse sum is inv_sum, and
\* the pairs after it
PairTest(rs, flag, i, j, acc, inv_sum) ==
    IF IsArb(inv_sum)
    THEN PairFrom(rs, flag, i, j + 1,
                  Append(acc, MakeArb(rs[i], rs[j], inv_sum)))
    ELSE PairFrom(rs, flag, i, j + 1, acc)

\* lines 114-132 from the pair (i, j) on
PairFrom(rs, flag, i, j, acc) ==
    IF i > Len(rs) THEN acc
    ELSE IF j > Len(rs) THEN PairFrom(rs, flag, i + 1, 1, acc)
    ELSE IF SkipSelf(i, j, flag) THEN PairFrom(rs, flag, i, j + 1, acc)
    ELSE IF PriceMissing(rs[i], rs[j]) THEN PairFrom(rs, flag, i, j + 1, acc)
    ELSE PairTest(rs, flag, i, j, acc, InvSum(rs[i], rs[j]))

\* line 113 then lines 114-132
PairLoop(rs, flag) == PairFrom(rs, flag, 1, 1, <<>>)

\* the place of x in a list sorted by descending edge: after every element
\* whose edge is at least x's (the sort is stable)
RECURSIVE InsertDesc(_, _)
InsertDesc(sorted, x) ==
    IF sorted = <<>> THEN <<x>>
    ELSE IF FLt(Head(sorted).edge, x.edge) THEN <<x>> \o sorted
    ELSE <<Head(sorted)>> \o InsertDesc(Tail(sorted), x)

RECURSIVE SortFrom(_, _, _)
SortFrom(list, k, sorted) ==
    IF k > Len(list) THEN sorted
    ELSE SortFrom(list, k + 1, InsertDesc(sorted, list[k]))

\* an insertion that puts x before the elements of equal edge
RECURSIVE InsertBeforeTies(_, _)
InsertBeforeTies(sorted, x) ==
    IF sorted = <<>> THEN <<x>>
    ELSE IF FLe(Head(sorted).edge, x.edge) THEN <<x>> \o sorted
    ELSE <<Head(sorted)>> \o InsertBeforeTies(Tail(sorted), x)

RECURSIVE SortTiesReversedFrom(_, _, _)
SortTiesReversedFrom(list, k, sorted) ==
    IF k > Len(list) THEN sorted
    ELSE SortTiesReversedFrom(list, k + 1, InsertBeforeTies(sorted, list[k]))

\* a descending sort that is not stable
SortTiesReversed(list) == SortTiesReversedFrom(list, 1, <<>>)

\* line 133: arbs.sort(key=edge, reverse=True), a stable sort
SortByEdgeDesc(list) == SortFrom(list, 1, <<>>)

---------------------------------------------------------------------------
(* stake_split, lines 136-143 *)

\* what a call that raised leaves in place of a result
NoResult ==
    [raised |-> TRUE, s1 |-> Zero, s2 |-> Zero, edge |-> Zero, profit |-> Zero]

\* lines 139-143: the tuple returned
SplitTuple(inv1, inv2, denom, edge, bankroll) ==
    [raised |-> FALSE,
     s1 |-> FMul(bankroll, FDiv(inv1, denom)),
     s2 |-> FMul(bankroll, FDiv(inv2, denom)),
     edge |-> edge,
     profit |-> FMul(bankroll, edge)]

\* lines 139-143 without the division by denom
SplitTupleUnscaled(inv1, inv2, denom, edge, bankroll) ==
    [raised |-> FALSE,
     s1 |-> FMul(bankroll, inv1),
     s2 |-> FMul(bankroll, inv2),
     edge |-> edge,
     profit |-> FMul(bankroll, edge)]

\* lines 139-143: the divisions by denom raise ZeroDivisionError when
\* denom is 0.0 or -0.0
SplitBy(inv1, inv2, denom, bankroll) ==
    IF IsZero(denom) THEN NoResult
    ELSE SplitTuple(inv1, inv2, denom, FSub(One, denom), bankroll)

\* lines 138-143
SplitInverses(inv1, inv2, bankroll) ==
    SplitBy(inv1, inv2, FAdd(inv1, inv2), bankroll)

\* stake_split returning bankroll * inv1 and bankroll * inv2 as the stakes
stake_split_unscaled(odd1, odd2, bankroll) ==
    IF IsZero(odd1) \/ IsZero(odd2) THEN NoResult
    ELSE LET inv1 == FDiv(One, odd1)
             inv2 == FDiv(One, odd2)
             denom == FAdd(inv1, inv2)
         IN  IF IsZero(denom) THEN NoResult
             ELSE SplitTupleUnscaled(inv1, inv2, denom, FSub(One, denom),
                                     bankroll)

\* stake_split with line 141 as denom - 1.0
stake_split_negated(odd1, odd2, bankroll) ==
    IF IsZero(odd1) \/ IsZero(odd2) THEN NoResult
    ELSE LET inv1 == FDiv(One, odd1)
             inv2 == FDiv(One, odd2)
             denom == FAdd(inv1, inv2)
         IN  IF IsZero(denom) THEN NoResult
             ELSE SplitTuple(inv1, inv2, denom, FSub(denom, One), bankroll)

\* lines 136-143; line 137 divides by each price, and a float division by
\* 0.0 or -0.0 raises ZeroDivisionError
stake_split(odd1, odd2, bankroll) ==
    IF IsZero(odd1) \/ IsZero(odd2) THEN NoResult
    ELSE SplitInverses(FDiv(One, odd1), FDiv(One, odd2), bankroll)

---------------------------------------------------------------------------
(* The script's loop over the events, lines 208-236 *)

\* line 59: the slider's default minimum edge, in percent
DefaultMinEdge == 1
\* line 60: the smallest bankroll the input accepts, and its default
MinBankroll == 10
DefaultBankroll == 100

\* line 218: keep the opportunities whose edge in percent reaches min_edge
RECURSIVE FilterEdge(_, _)
FilterEdge(list, min_edge) ==
    IF list = <<>> THEN <<>>
    ELSE IF FLe(min_edge, FMul(Head(list).edge, Hundred))
         THEN <<Head(list)>> \o FilterEdge(Tail(list), min_edge)
         ELSE FilterEdge(Tail(list), min_edge)

\* lines 222-236: the record appended for opportunity a
MakeRow(event_id, a, st) ==
    [event_id |-> event_id,
     bk_outcome1 |-> a.bk_outcome1,
     outcome1 |-> a.outcome1,
     odd1 |-> a.odd1,
     bk_outcome2 |-> a.bk_outcome2,
     outcome2 |-> a.outcome2,
     odd2 |-> a.odd2,
     edge_pct |-> Round(FMul(st.edge, Hundred), 3),
     stake1 |-> Round(st.s1, 2),
     stake2 |-> Round(st.s2, 2),
     profit |-> Round(st.profit, 2)]

RECURSIVE StakeLoop(_, _, _, _, _)

\* lines 222-236 for opportunity k, st being what stake_split gave for it,
\* and the opportunities after it
StakeRow(event_id, list, bankroll, k, acc, st) ==
    IF st.raised THEN [all_rows |-> acc, raised |-> TRUE]
    ELSE StakeLoop(event_id, list, bankroll, k + 1,
                   Append(acc, MakeRow(event_id, list[k], st)))

\* lines 220-236 from opportunity k on; raised tells that stake_split raised
StakeLoop(event_id, list, bankroll, k, acc) ==
    IF k > Len(list) THEN [all_rows |-> acc, raised |-> FALSE]
    ELSE StakeRow(event_id, list, bankroll, k, acc,
                  stake_split(list[k].odd1, list[k].odd2, bankroll))

Sessions == DOMAIN pc

\* lines 209-217 and 95-111: the loop takes the next event and calls
\* best_two_outcome_arbs, whose first loop fills rows
Normalize(s) ==
    /\ pc[s] = "loop"
    /\ ev[s] < Len(events[s])
    /\ LET r == NormalizeFrom(events[s][ev[s] + 1].bookmakers, 1, 1,
                              NewRows(rows[s]))
       IN  /\ rows' = [rows EXCEPT ![s] = r.rows]
           /\ pc' = [pc EXCEPT ![s] = IF r.error # "none" THEN r.error
                                                ELSE "pair"]
    /\ ev' = [ev EXCEPT ![s] = @ + 1]
    /\ UNCHANGED <<events, cfg, arbs, ev_arbs, all_rows, split>>

\* lines 113-132: the second loop fills arbs
Pair(s) ==
    /\ pc[s] = "pair"
    /\ arbs' = [arbs EXCEPT ![s] = PairLoop(rows[s], cfg[s].require_diff_books)]
    /\ pc' = [pc EXCEPT ![s] = "sort"]
    /\ UNCHANGED <<events, cfg, ev, rows, ev_arbs, all_rows, split>>

\* lines 133-134 and 217: sort, return, and bind the result
SortReturn(s) ==
    /\ pc[s] = "sort"
    /\ LET sorted == SortByEdgeDesc(arbs[s])
       IN  /\ arbs' = [arbs EXCEPT ![s] = sorted]
           /\ ev_arbs' = [ev_arbs EXCEPT ![s] = sorted]
    /\ pc' = [pc EXCEPT ![s] = "returned"]
    /\ UNCHANGED <<events, cfg, ev, rows, all_rows, split>>

\* line 218
Filter(s) ==
    /\ pc[s] = "returned"
    /\ ev_arbs' = [ev_arbs EXCEPT ![s] = FilterEdge(@, cfg[s].min_edge)]
    /\ pc' = [pc EXCEPT ![s] = "stake"]
    /\ UNCHANGED <<events, cfg, ev, rows, arbs, all_rows, split>>

\* lines 220-236
Stake(s) ==
    /\ pc[s] = "stake"
    /\ LET r == StakeLoop(events[s][ev[s]].id, ev_arbs[s], cfg[s].bankroll,
                          1, all_rows[s])
       IN  /\ all_rows' = [all_rows EXCEPT ![s] = r.all_rows]
           /\ pc' = [pc EXCEPT ![s] = IF r.raised THEN "ZeroDivisionError"
                                                ELSE "loop"]
    /\ UNCHANGED <<events, cfg, ev, rows, arbs, ev_arbs, split>>

\* line 238 on: the loop is over
Finish(s) ==
    /\ pc[s] = "loop"
    /\ ev[s] = Len(events[s])
    /\ pc' = [pc EXCEPT ![s] = "done"]
    /\ UNCHANGED <<events, cfg, ev, rows, arbs, ev_arbs, all_rows, split>>

Next ==
    \/ \E s \in Sessions : Normalize(s)
    \/ \E s \in Sessions : Pair(s)
    \/ \E s \in Sessions : SortReturn(s)
    \/ \E s \in Sessions : Filter(s)
    \/ \E s \in Sessions : Stake(s)
    \/ \E s \in Sessions : Finish(s)

\* no direct call of stake_split is under way
NoSplit ==
    [odd1 |-> One, odd2 |-> One, bankroll |-> Zero, status |-> "none",
     out |-> [NoResult EXCEPT !.raised = FALSE]]

\* the settings of a session, lines 59-61: the checkbox either way, the
\* slider and the bankroll at their defaults
Configs ==
    [require_diff_books : BOOLEAN,
     min_edge : {FromRat(DefaultMinEdge, 1)},
     bankroll : {FromRat(DefaultBankroll, 1)}]

InitSessions(ss, lists) ==
    /\ events \in [ss -> lists]
    /\ cfg \in [ss -> Configs]
    /\ pc = [s \in ss |-> "loop"]
    /\ ev = [s \in ss |-> 0]
    /\ rows = [s \in ss |-> <<>>]
    /\ arbs = [s \in ss |-> <<>>]
    /\ ev_arbs = [s \in ss |-> <<>>]
    /\ all_rows = [s \in ss |-> <<>>]
    /\ split = NoSplit

\* one run of the script over one event snapshot of at most MaxMarkets
\* markets, cut into bookmakers in every way
Init ==
    \E n \in 0..MaxMarkets :
        \E ms \in [1..n -> QuoteShapes(RawPrices) \cup OddShapes
                                \cup OtherShapes],
           c \in Compositions(n) :
            InitSessions({1},
                {<<[id |-> 1, bookmakers |-> BuildBookmakers(ms, c)]>>})

Spec == Init /\ [][Next]_vars

---------------------------------------------------------------------------
(* stake_split called directly *)

\* the largest numerator and denominator of a price handed to stake_split
MaxNum == 4
MaxDen == 2

\* a price of 3 * 2^-36: its inverse is above 2^34 and is rounded by more
\* than 10^-6
TinyPrice == [cls |-> "fin", neg |-> FALSE, m |-> <<3>>, e |-> -36]
\* the smallest price above 0, 2^-1074: its inverse is no float
SmallestPrice == [cls |-> "fin", neg |-> FALSE, m |-> <<1>>, e |-> MinExp]

\* the floats nearest to n/d
SplitOdds == {FromRat(n, d) : n \in (-MaxNum)..MaxNum, d \in 1..MaxDen}
\* line 60: the bankroll input has no maximum; 10^12 is a float
LargeBankroll == FMul(FromRat(1000000, 1), FromRat(1000000, 1))

SplitBankrolls ==
    {FromRat(b, 1) : b \in {-DefaultBankroll, 0, MinBankroll, DefaultBankroll}}
        \cup {LargeBankroll}

\* a call of stake_split with prices of odds is under way
InitSplitOver(odds) ==
    /\ events = <<>>
    /\ cfg = <<>>
    /\ pc = <<>>
    /\ ev = <<>>
    /\ rows = <<>>
    /\ arbs = <<>>
    /\ ev_arbs = <<>>
    /\ all_rows = <<>>
    /\ split \in {[NoSplit EXCEPT !.odd1 = a, !.odd2 = b, !.bankroll = c,
                                  !.status = "called"] :
                     a \in odds, b \in odds, c \in SplitBankrolls}

InitSplit == InitSplitOver(SplitOdds)

\* the calls with the small prices too
InitSplitSmall == InitSplitOver(SplitOdds \cup {TinyPrice, SmallestPrice})

\* lines 136-143: the call returns a tuple or raises ZeroDivisionError
SplitCall ==
    /\ split.status = "called"
    /\ LET r == stake_split(split.odd1, split.odd2, split.bankroll)
       IN  split' = [split EXCEPT !.out = r,
                        !.status = IF r.raised THEN "raised" ELSE "returned"]
    /\ UNCHANGED <<events, cfg, pc, ev, rows, arbs, ev_arbs, all_rows>>

NextSplit == SplitCall

SpecSplit == InitSplit /\ [][NextSplit]_vars

SpecSplitSmall == InitSplitSmall /\ [][NextSplit]_vars


---------------------------------------------------------------------------
(* What the properties below speak of *)

\* the call of best_two_outcome_arbs of session s has just returned:
\* rows[s] are its quotes, ev_arbs[s] the list it returned
Returned(s) == pc[s] = "returned"

\* the returned opportunities that pair quote a's outcome 1 with quote b's
\* outcome 2 (the labels of an event are all different)
OppsFor(ret, a, b) ==
    {k \in 1..Len(ret) :
        ret[k].outcome1 = a.outcome1_name /\ ret[k].outcome2 = b.outcome2_name}

\* a price is present and has an inverse
HasInverse(p) == p # None /\ ~IsZero(p)

\* 1/p + 1/q as the floats give it: each quotient rounded, then the sum
FloatInverseSum(p, q) == FAdd(FDiv(One, p), FDiv(One, q))

\* 1/p + 1/q < 1 in the float comparison of the code
InverseSumBelowOne(p, q) == FLt(FloatInverseSum(p, q), One)

\* the quote that supplied an opportunity's outcome 1, and its outcome 2
RowOfOutcome1(rs, o) == CHOOSE i \in 1..Len(rs) : rs[i].outcome1_name = o.outcome1
RowOfOutcome2(rs, o) == CHOOSE j \in 1..Len(rs) : rs[j].outcome2_name = o.outcome2

\* opportunity x was met before opportunity y by the nested loops
MetBefore(rs, x, y) ==
    \/ RowOfOutcome1(rs, x) < RowOfOutcome1(rs, y)
    \/ /\ RowOfOutcome1(rs, x) = RowOfOutcome1(rs, y)
       /\ RowOfOutcome2(rs, x) < RowOfOutcome2(rs, y)

---------------------------------------------------------------------------
(* C1: for every ordered pair (A, B) of quotes that the distinct flag does *)
(* not exclude and whose two prices are present with an inverse, the       *)
(* returned list holds exactly one opportunity for the pair when           *)
(* 1/A.outcome1_price + 1/B.outcome2_price < 1 strictly (the float sum of  *)
(* the float inverses against 1.0), carrying A's bookmaker, label and      *)
(* price, B's bookmaker, label and price and edge = 1 - inverse sum; it    *)
(* holds none when the sum is 1 or more.                                   *)
C1_OpportunityIffInverseSumBelowOne ==
    \A s \in Sessions :
        Returned(s) =>
            \A i \in 1..Len(rows[s]), j \in 1..Len(rows[s]) :
                LET a == rows[s][i]
                    b == rows[s][j]
                    hits == OppsFor(ev_arbs[s], a, b)
                IN  (/\ ~(i = j /\ cfg[s].require_diff_books)
                     /\ HasInverse(a.outcome1_price)
                     /\ HasInverse(b.outcome2_price))
                    => IF InverseSumBelowOne(a.outcome1_price, b.outcome2_price)
                       THEN /\ Cardinality(hits) = 1
                            /\ \A k \in hits :
                                /\ ev_arbs[s][k].bk_outcome1 = a.bookmaker
                                /\ ev_arbs[s][k].bk_outcome2 = b.bookmaker
                                /\ ev_arbs[s][k].odd1 = a.outcome1_price
                                /\ ev_arbs[s][k].odd2 = b.outcome2_price
                                /\ ev_arbs[s][k].edge
                                    = FSub(One, FloatInverseSum(a.outcome1_price,
                                                                b.outcome2_price))
                       ELSE hits = {}

\* with the flag clear, a call over the quotes (3, 1.5) and (1.5, 4)
\* returned the two pairs with inverse sum below 1 (1/3 + 1/4, whose edge
\* is not the float nearest to 5/12, and 1/1.5 + 1/4) and neither the pair
\* whose inverse sum is exactly 1.0 (1/3 + 1/1.5) nor the pair above 1
\* (1/1.5 + 1/1.5)
C1_Witness ==
    \E s \in Sessions :
        /\ Returned(s)
        /\ ~cfg[s].require_diff_books
        /\ Len(rows[s]) = 2
        /\ rows[s][1].outcome1_price = FromRat(3, 1)
        /\ rows[s][1].outcome2_price = FromRat(3, 2)
        /\ rows[s][2].outcome1_price = FromRat(3, 2)
        /\ rows[s][2].outcome2_price = FromRat(4, 1)
        /\ Len(ev_arbs[s]) = 2
        /\ ev_arbs[s][1].odd1 = FromRat(3, 1)
        /\ ev_arbs[s][1].odd2 = FromRat(4, 1)
        /\ ev_arbs[s][1].edge # FromRat(5, 12)
        /\ FloatInverseSum(FromRat(3, 1), FromRat(3, 2)) = One

---------------------------------------------------------------------------
(* C2: no returned opportunity has an odd1 or odd2 that is None, zero or   *)
(* negative: every pair whose price is absent or non-positive is skipped.  *)
C2_NoNonPositivePrice ==
    \A s \in Sessions :
        Returned(s) =>
            \A k \in 1..Len(ev_arbs[s]) :
                /\ ev_arbs[s][k].odd1 # None
                /\ FLt(Zero, ev_arbs[s][k].odd1)
                /\ ev_arbs[s][k].odd2 # None
                /\ FLt(Zero, ev_arbs[s][k].odd2)

---------------------------------------------------------------------------
(* C3: with require_diff_books set no returned opportunity pairs a quote   *)
(* with itself, while two different quotes are paired whenever their       *)
(* inverse sum is below 1, whatever their bookmaker names and prices; with *)
(* the flag clear a quote whose own inverse sum is below 1 is reported     *)
(* paired with itself.                                                     *)
C3_SelfPairOnlyWithoutFlag ==
    \A s \in Sessions :
        Returned(s) =>
            \A i \in 1..Len(rows[s]), j \in 1..Len(rows[s]) :
                LET a == rows[s][i]
                    b == rows[s][j]
                    arb == /\ HasInverse(a.outcome1_price)
                           /\ HasInverse(b.outcome2_price)
                           /\ InverseSumBelowOne(a.outcome1_price, b.outcome2_price)
                IN  /\ (i = j /\ cfg[s].require_diff_books)
                        => OppsFor(ev_arbs[s], a, b) = {}
                    /\ (i # j /\ arb) => OppsFor(ev_arbs[s], a, b) # {}
                    /\ (i = j /\ ~cfg[s].require_diff_books /\ arb)
                        => OppsFor(ev_arbs[s], a, b) # {}

\* with the flag set, two quotes of one bookmaker name with the same prices,
\* each an arbitrage with itself, came back paired with each other only
C3_Witness ==
    \E s \in Sessions :
        /\ Returned(s)
        /\ cfg[s].require_diff_books
        /\ Len(rows[s]) = 2
        /\ rows[s][1].bookmaker = rows[s][2].bookmaker
        /\ rows[s][1].outcome1_price = FromRat(4, 1)
        /\ rows[s][2].outcome1_price = FromRat(4, 1)
        /\ rows[s][1].outcome2_price = FromRat(4, 1)
        /\ rows[s][2].outcome2_price = FromRat(4, 1)
        /\ Len(ev_arbs[s]) = 2

---------------------------------------------------------------------------
(* C4: the returned list is sorted by non-increasing edge, and of two      *)
(* opportunities with equal edge the one the nested loops met first, in    *)
(* lexicographic order of (i, j), comes first.                             *)
C4_SortedByEdgeStable ==
    \A s \in Sessions :
        Returned(s) =>
            \A k \in 1..Len(ev_arbs[s]), l \in 1..Len(ev_arbs[s]) :
                k < l =>
                    /\ ~FLt(ev_arbs[s][k].edge, ev_arbs[s][l].edge)
                    /\ FEq(ev_arbs[s][k].edge, ev_arbs[s][l].edge)
                        => MetBefore(rows[s], ev_arbs[s][k], ev_arbs[s][l])

\* a returned list with two opportunities of equal edge and a third one of
\* larger edge that the loops met after one of them
C4_Witness ==
    \E s \in Sessions :
        /\ Returned(s)
        /\ \E k, l, m \in 1..Len(ev_arbs[s]) :
            /\ k < l
            /\ l < m
            /\ FLt(ev_arbs[s][l].edge, ev_arbs[s][k].edge)
            /\ FEq(ev_arbs[s][l].edge, ev_arbs[s][m].edge)
            /\ MetBefore(rows[s], ev_arbs[s][l], ev_arbs[s][k])

---------------------------------------------------------------------------
(* The markets of an event that the first loop turns into quotes *)

\* the places <<b, m>> of the two-outcome h2h markets
TwoWayPlaces(bks) ==
    {x \in UNION {{<<b, m>> : m \in 1..Len(bks[b].markets)} : b \in 1..Len(bks)} :
        /\ bks[x[1]].markets[x[2]].key = "h2h"
        /\ Len(bks[x[1]].markets[x[2]].outcomes) = 2}

PlaceBefore(x, y) == x[1] < y[1] \/ (x[1] = y[1] /\ x[2] < y[2])

(* C5: the first loop emits exactly one quote per market tagged h2h with   *)
(* exactly two outcomes, in bookmaker-then-market order, the outcome at    *)
(* position 0 as outcome1 and the outcome at position 1 as outcome2; the   *)
(* markets with another tag or another count of outcomes give no quote.    *)
C5_OneQuotePerTwoWayMarket ==
    \A s \in Sessions :
        ev[s] >= 1 =>
            LET bks == events[s][ev[s]].bookmakers
                tw == TwoWayPlaces(bks)
            IN  /\ Len(rows[s]) = Cardinality(tw)
                /\ \A x \in tw :
                    LET k == Cardinality({y \in tw : PlaceBefore(y, x)}) + 1
                        o == bks[x[1]].markets[x[2]].outcomes
                    IN  /\ rows[s][k].bookmaker = BookmakerName(bks[x[1]])
                        /\ rows[s][k].outcome1_name = o[1].name
                        /\ rows[s][k].outcome2_name = o[2].name

---------------------------------------------------------------------------
(* C6: best_two_outcome_arbs never fails on malformed input: a missing or  *)
(* non-numeric price gives a quote with that price absent, and the call    *)
(* goes on to return a result.                                             *)
C6_NeverFails ==
    \A s \in Sessions : pc[s] \notin {"ValueError", "TypeError", "OverflowError"}

---------------------------------------------------------------------------
(* Properties of stake_split, over its direct calls *)

\* the call of stake_split has ended, by a return or by an exception
SplitEnded == split.status # "called"

\* the stated precondition: both prices finite and above 0, bankroll
\* finite and at least 0
SplitValid ==
    /\ IsFinite(split.odd1) /\ FLt(Zero, split.odd1)
    /\ IsFinite(split.odd2) /\ FLt(Zero, split.odd2)
    /\ IsFinite(split.bankroll) /\ FLe(Zero, split.bankroll)

\* 1/odd1 + 1/odd2 of the call, the float the code names denom
SplitDenom == FloatInverseSum(split.odd1, split.odd2)

Million == FromRat(1000000, 1)

\* |x - y| for finite x and y, not rounded
Dist(x, y) == [ExactSum(x, FNeg(y)) EXCEPT !.neg = FALSE]

\* the larger of finite x and y
Larger(x, y) == IF FCmp(x, y) >= 0 THEN x ELSE y

\* |x - y| <= scale / 10^6 for finite x, y and scale, in exact arithmetic
WithinMillionth(x, y, scale) ==
    FCmp(ExactProd(Dist(x, y), Million), scale) <= 0

\* 2^k
TwoTo(k) == [cls |-> "fin", neg |-> FALSE, m |-> <<1>>, e |-> k]

\* x lies between 2^-300 and 2^300
Ordinary(x) == FLe(TwoTo(-300), x) /\ FLe(x, TwoTo(300))

\* prices and bankroll far from the ends of the float range: no step of the
\* call overflows or underflows
SplitOrdinary ==
    /\ Ordinary(split.odd1)
    /\ Ordinary(split.odd2)
    /\ IsZero(split.bankroll) \/ Ordinary(split.bankroll)

(* C7 as stated: for prices above 0 and a bankroll of at least 0,          *)
(* stake_split returns stakes that are not negative and add up to the      *)
(* bankroll, with equal payout stake1 * p1 = stake2 * p2 =                 *)
(* bankroll / (1/p1 + 1/p2), edge = 1 - (1/p1 + 1/p2) and profit =         *)
(* bankroll * edge: each equality of the real numbers holds of the         *)
(* returned floats within the tolerance allowed, 10^-6 absolute for the    *)
(* sum of the stakes and for the edge, 10^-6 of the larger side for the    *)
(* payouts and the profit.                                                 *)
C7_StakesSplitBankroll ==
    (SplitEnded /\ SplitValid) =>
        LET p1 == split.odd1
            p2 == split.odd2
            b == split.bankroll
            o == split.out
            pay1 == ExactProd(o.s1, p1)
            pay2 == ExactProd(o.s2, p2)
            p12 == ExactProd(p1, p2)
        IN  /\ split.status = "returned"
            /\ FLe(Zero, o.s1)
            /\ FLe(Zero, o.s2)
            /\ WithinMillionth(ExactSum(o.s1, o.s2), b, One)
            /\ WithinMillionth(pay1, pay2, Larger(pay1, pay2))
            /\ WithinMillionth(ExactProd(o.s1, ExactSum(p1, p2)),
                               ExactProd(b, p2), ExactProd(b, p2))
            /\ WithinMillionth(ExactProd(o.edge, p12),
                               ExactSum(p12, FNeg(ExactSum(p1, p2))), p12)
            /\ WithinMillionth(o.profit, ExactProd(b, o.edge),
                               [ExactProd(b, o.edge) EXCEPT !.neg = FALSE])

(* C7 amended: for prices above 0 and a bankroll of at least 0, each       *)
(* between 2^-300 and 2^300 when not 0, stake_split returns stakes that    *)
(* are not negative, with the equalities of the real numbers holding of    *)
(* the returned floats within a relative tolerance of 10^-6: stake1 +      *)
(* stake2 = bankroll within 10^-6 of the bankroll, stake1 * p1 =           *)
(* stake2 * p2 = bankroll / (1/p1 + 1/p2) within 10^-6 of the larger side, *)
(* edge = 1 - (1/p1 + 1/p2) within 10^-6 of 1 + 1/p1 + 1/p2, and profit =  *)
(* bankroll * edge within 10^-6 of its size.                               *)
(* C7 as stated fails in three ways, which the three changes answer: with  *)
(* a bankroll of 10^12 the sum of the stakes is off by more than 10^-6;    *)
(* with a price of 3 * 2^-36 the edge is off by more than 10^-6; with a    *)
(* price of 2^-1074 the inverse is infinite and a stake is nan.            *)
C7_StakesSplitBankrollRelative ==
    (SplitEnded /\ SplitValid /\ SplitOrdinary) =>
        LET p1 == split.odd1
            p2 == split.odd2
            b == split.bankroll
            o == split.out
            pay1 == ExactProd(o.s1, p1)
            pay2 == ExactProd(o.s2, p2)
            p12 == ExactProd(p1, p2)
        IN  /\ split.status = "returned"
            /\ FLe(Zero, o.s1)
            /\ FLe(Zero, o.s2)
            /\ WithinMillionth(ExactSum(o.s1, o.s2), b, b)
            /\ WithinMillionth(pay1, pay2, Larger(pay1, pay2))
            /\ WithinMillionth(ExactProd(o.s1, ExactSum(p1, p2)),
                               ExactProd(b, p2), ExactProd(b, p2))
            /\ WithinMillionth(ExactProd(o.edge, p12),
                               ExactSum(p12, FNeg(ExactSum(p1, p2))),
                               ExactSum(p12, ExactSum(p1, p2)))
            /\ WithinMillionth(o.profit, ExactProd(b, o.edge),
                               [ExactProd(b, o.edge) EXCEPT !.neg = FALSE])

\* a call with the prices 3 * 2^-36 and 4 and a bankroll of 10^12 returned
\* two different positive stakes whose sum misses the bankroll by more than
\* 10^-6, and an edge that misses 1 - (1/p1 + 1/p2) by more than 10^-6
C7_Witness ==
    /\ split.status = "returned"
    /\ SplitValid
    /\ SplitOrdinary
    /\ split.odd1 = TinyPrice
    /\ split.odd2 = FromRat(4, 1)
    /\ split.bankroll = LargeBankroll
    /\ FLt(Zero, split.out.s1)
    /\ FLt(Zero, split.out.s2)
    /\ split.out.s1 # split.out.s2
    /\ ~WithinMillionth(ExactSum(split.out.s1, split.out.s2),
                        split.bankroll, One)
    /\ ~WithinMillionth(
            ExactProd(split.out.edge, ExactProd(split.odd1, split.odd2)),
            ExactSum(ExactProd(split.odd1, split.odd2),
                     FNeg(ExactSum(split.odd1, split.odd2))),
            ExactProd(split.odd1, split.odd2))

(* C8: called with a price that is zero or negative, or with a negative    *)
(* bankroll, stake_split signals an error instead of returning stakes.     *)
C8_InvalidArgumentSignalled ==
    (SplitEnded /\ ~SplitValid) => split.status = "raised"

(* C9 as stated: for prices above 0 and any bankroll of at least 0, the    *)
(* call returns; profit > 0 when 1/p1 + 1/p2 < 1, profit <= 0 otherwise.   *)
C9_ProfitPositiveForAnyBankroll ==
    (SplitEnded /\ SplitValid) =>
        /\ split.status = "returned"
        /\ IF FLt(SplitDenom, One)
           THEN FLt(Zero, split.out.profit)
           ELSE FLe(split.out.profit, Zero)

(* C9 amended: for prices above 0 and a bankroll of at least 0, each       *)
(* between 2^-300 and 2^300 when not 0, the call returns; when             *)
(* 1/p1 + 1/p2 < 1 the profit is > 0 for a bankroll > 0 and is 0 for a     *)
(* bankroll of 0; when 1/p1 + 1/p2 >= 1 the profit is <= 0.                *)
(* (1/p1 + 1/p2 is the float denom of the code.)                           *)
C9_ProfitPositiveForPositiveBankroll ==
    (SplitEnded /\ SplitValid /\ SplitOrdinary) =>
        /\ split.status = "returned"
        /\ IF FLt(SplitDenom, One)
           THEN /\ FLt(Zero, split.bankroll) => FLt(Zero, split.out.profit)
                /\ IsZero(split.bankroll) => IsZero(split.out.profit)
           ELSE FLe(split.out.profit, Zero)

\* an arbitrage pair split over a bankroll of 0: the profit is 0
C9_Witness ==
    /\ split.status = "returned"
    /\ SplitValid
    /\ FLt(SplitDenom, One)
    /\ IsZero(split.bankroll)
    /\ IsZero(split.out.profit)

============================================================================
